---- MODULE Spec2Model ----
(***************************************************************************)
(* Model of the mock presence-channel service: two drafts of the client,  *)
(* registry and proxy live side by side in the repository.                *)
(*   "myID" draft:    mock-client.js, unnamed/part_000, part_001:1-9      *)
(*   "members" draft: unnamed/part_002, mock-instance.js, part_001:13-28  *)
(***************************************************************************)
EXTENDS Integers, Sequences, FiniteSets, TLC

\* ---------------------------------------------------------------- bounds
MaxObjs == 4        \* MockChannel objects that may be allocated
MaxPending == 1     \* completion callbacks a client may have outstanding
MaxViews == 2       \* views the callers keep

\* ---------------------------------------------------------------- values
Undef == "undefined"
Ids == {"alice", "bob"}                 \* identities an authorizer resolves
RetVals == {Undef, "timer"}             \* what a caller's authorizer returns
Clients == {"A", "B"}
Names == {"room-1", "room-2"}           \* channel names the callers use
\* names that `this.channels[name]` finds on Object.prototype of the literal {}
ProtoNames == {"constructor"}
AllNames == Names \cup ProtoNames
Keys == {"name", "members", "myID", "callbacks"}
MemberKeys == {"u1"}                   \* entries a caller writes into a members mapping
MemberVals == {"x"}
Insts == {"default", "MockPusherInstance"}

NoRef == 0          \* undefined reference
Fresh == 0          \* identity of an object nobody else holds
Builtin == -1       \* the Object function, found through the prototype chain

EmptyMap == [k \in {} |-> Undef]
Put(m, k, v) == [x \in (DOMAIN m) \cup {k} |-> IF x = k THEN v ELSE m[x]]
Del(m, k) == [x \in (DOMAIN m) \ {k} |-> m[x]]

\* a primitive result and an object result of a property read
Prim(s) == [prim |-> s]
Obj(r, m) == [ref |-> r, map |-> m]
IsObj(v) == "map" \in DOMAIN v

VARIABLES
  channels,   \* [Insts -> [AllNames -> ref]]  own properties of each this.channels
  heap,       \* sequence of MockChannel objects; a reference is an index
  created,    \* [Insts -> [AllNames -> Nat]]  number of `new MockChannel(name)` run
  clients,    \* [Clients -> [cls, config, id]]
  pending,    \* completion callbacks stored by asynchronous authorizers
  views,      \* proxies handed out by subscribe
  held,       \* the members mapping a caller is holding, or NoHeld
  resolved    \* [Clients -> value last passed to the completion callback]

vars == <<channels, heap, created, clients, pending, views, held, resolved>>

NoHeld == [none |-> TRUE]

\* README.md: class MockChannel { constructor(name) }
MockChannel(name) == [name |-> name, members |-> EmptyMap]

\* this.channels[name]: own property first, then the prototype chain
Lookup(chs, name) ==
  IF chs[name] # NoRef THEN chs[name]
  ELSE IF name \in ProtoNames THEN Builtin
  ELSE NoRef

\* target[key] on what the registry returned
TargetGet(hp, ref, key) ==
  IF ref = Builtin
  THEN (IF key = "name" THEN Prim("Object") ELSE Prim(Undef))
  ELSE CASE key = "name" -> Prim(hp[ref].name)
         [] key = "members" -> Obj(ref, hp[ref].members)
         [] OTHER -> Prim(Undef)

\* {...x}: own enumerable entries of x, nothing for undefined
Spread(v) == IF IsObj(v) THEN v.map ELSE EmptyMap

\* channel() that replaces the whole mapping when it creates a channel
MockPusherInstance_channel_evict(chs, hp, name) ==
  IF Lookup(chs, name) = NoRef
  THEN [channels |-> [n \in DOMAIN chs |-> IF n = name THEN Len(hp) + 1 ELSE NoRef],
        heap |-> Append(hp, MockChannel(name)),
        made |-> 1,
        ret |-> Len(hp) + 1]
  ELSE [channels |-> chs, heap |-> hp, made |-> 0, ret |-> Lookup(chs, name)]

\* channel() without the existence test: a new MockChannel on every call
MockPusherInstance_channel_alwaysNew(chs, hp, name) ==
  [channels |-> [chs EXCEPT ![name] = Len(hp) + 1],
   heap |-> Append(hp, MockChannel(name)),
   made |-> 1,
   ret |-> Len(hp) + 1]

\* channel() keyed by a fixed property (this.channels.name) instead of [name]
MockPusherInstance_channel_fixedKey(chs, hp, name) ==
  IF Lookup(chs, "room-1") = NoRef
  THEN [channels |-> [chs EXCEPT !["room-1"] = Len(hp) + 1],
        heap |-> Append(hp, MockChannel(name)),
        made |-> 1,
        ret |-> Len(hp) + 1]
  ELSE [channels |-> chs, heap |-> hp, made |-> 0, ret |-> Lookup(chs, "room-1")]

\* mock-instance.js: MockInstance.channel(name)
MockPusherInstance_channel(chs, hp, name) ==
  IF Lookup(chs, name) = NoRef
  THEN [channels |-> [chs EXCEPT ![name] = Len(hp) + 1],
        heap |-> Append(hp, MockChannel(name)),
        made |-> 1,
        ret |-> Len(hp) + 1]
  ELSE [channels |-> chs, heap |-> hp, made |-> 0, ret |-> Lookup(chs, name)]

\* a get trap that intercepts nothing
proxyMockChannel_myID_noTrap(hp, cl, view, key) == TargetGet(hp, view.chan, key)

\* a get trap whose default branch returns nothing
proxyMockChannel_myID_noDefault(hp, cl, view, key) ==
  IF key = "myID" THEN Prim(cl[view.client].id)
  ELSE Prim(Undef)

\* part_001:1-9  proxy get trap of the "myID" draft
proxyMockChannel_myID(hp, cl, view, key) ==
  IF key = "myID" THEN Prim(cl[view.client].id)
  ELSE TargetGet(hp, view.chan, key)

\* a members trap that forgets to spread target.members
proxyMockChannel_members_noSpread(hp, cl, view, key) ==
  IF key = "members"
  THEN Obj(Fresh, Put(EmptyMap, "myID", cl[view.client].id))
  ELSE TargetGet(hp, view.chan, key)

\* a members trap that hands out target.members itself
proxyMockChannel_members_noCopy(hp, cl, view, key) == TargetGet(hp, view.chan, key)

\* the members trap bound to one module-level client instead of its own
proxyMockChannel_members_sharedClient(hp, cl, view, key) ==
  IF key = "members"
  THEN Obj(Fresh, Put(Spread(TargetGet(hp, view.chan, "members")),
                      "myID", cl["A"].id))
  ELSE TargetGet(hp, view.chan, key)

\* part_001:13-28  proxy get trap of the "members" draft
proxyMockChannel_members(hp, cl, view, key) ==
  IF key = "members"
  THEN Obj(Fresh, Put(Spread(TargetGet(hp, view.chan, "members")),
                      "myID", cl[view.client].id))
  ELSE TargetGet(hp, view.chan, key)

\* part_000: MockInstance.channel(name, client) of the default export
MockInstance_channel(chs, hp, name, client) ==
  IF Lookup(chs, name) = NoRef
  THEN [channels |-> [chs EXCEPT ![name] = Len(hp) + 1],
        heap |-> Append(hp, MockChannel(name)),
        made |-> 1,
        ret |-> [name |-> name, chan |-> Len(hp) + 1,
                 client |-> client, trap |-> "myID"]]
  ELSE [channels |-> chs, heap |-> hp, made |-> 0,
        ret |-> [name |-> name, chan |-> Lookup(chs, name),
                 client |-> client, trap |-> "myID"]]

\* part_001:1-9  the heap after the get trap of the "myID" draft ran: the
\* trap contains no assignment
proxyMockChannel_myID_target(hp, cl, view, key) == hp

\* a members trap that merges the identity into target.members itself
proxyMockChannel_members_target_writeBack(hp, cl, view, key) ==
  IF key = "members" /\ view.chan # Builtin
  THEN [hp EXCEPT ![view.chan].members = Put(@, "myID", cl[view.client].id)]
  ELSE hp

\* part_001:13-28  the heap after the get trap of the "members" draft ran:
\* the merge is built in a new object literal and nothing is assigned
proxyMockChannel_members_target(hp, cl, view, key) == hp

\* the heap after a property read through a proxy
GetEffect(hp, cl, view, key) ==
  IF view.trap = "myID" THEN proxyMockChannel_myID_target(hp, cl, view, key)
  ELSE proxyMockChannel_members_target(hp, cl, view, key)

\* a property read through a proxy
Get(hp, cl, view, key) ==
  IF view.trap = "myID" THEN proxyMockChannel_myID(hp, cl, view, key)
  ELSE proxyMockChannel_members(hp, cl, view, key)

\* ------------------------------------------------------------- clients
\* create-client.js: the authorizer calls the callback with {id} and
\* returns what the callback returned
createClient(id) == [cls |-> "myID", config |-> [by |-> "createClient", id |-> id], id |-> Undef]

\* new MockClient(config) of mock-client.js with a caller's own authorizer
MockClient_myID == [cls |-> "myID", config |-> [by |-> "caller", id |-> Undef], id |-> Undef]

\* new MockClient(config) of part_002 with a caller's own authorizer
MockClient_members == [cls |-> "members", config |-> [by |-> "caller", id |-> Undef], id |-> Undef]

\* what config.authorizer may do when subscribe invokes it
Behaviours(client) ==
  IF client.config.by = "createClient"
  THEN {[mode |-> "sync", val |-> client.config.id, ret |-> Undef]}
  ELSE IF client.cls = "myID"
  THEN [mode : {"async"}, val : Ids, ret : RetVals]
       \cup [mode : {"never"}, val : {Undef}, ret : RetVals]
       \cup [mode : {"sync"}, val : Ids, ret : {Undef}]
  ELSE [mode : {"sync", "async"}, val : Ids, ret : {Undef}]
       \cup [mode : {"never"}, val : {Undef}, ret : {Undef}]

\* mock-client.js:9-11  const callback = result => { this.id = result.id }
callback(client, result) == [client EXCEPT !.id = result.id]

\* setID called with `this` unbound: the client is never written
setID_unbound(client, id) == client

\* part_002:11-13  setID(id) { this.id = id }
setID(client, id) == [client EXCEPT !.id = id]

\* mock-client.js:12  this.id = this.config.authorizer(callback)
MockClient_authorize(client, b) ==
  LET ran == IF b.mode = "sync" THEN callback(client, [id |-> b.val]) ELSE client
  IN  [ran EXCEPT !.id = b.ret]

\* part_002:16  this.config.authorizer().authorize(this.setID)
MockClient_authorize_setID(client, b) ==
  IF b.mode = "sync" THEN setID(client, b.val) ELSE client

\* mock-client.js:9-12  the values one subscribe call assigns to this.id, in
\* order: the callback's assignment if it ran, then the assignment at line 12
MockClient_assignments(b) ==
  IF b.mode = "sync" THEN <<b.val, b.ret>> ELSE <<b.ret>>

\* part_002:11-16  the values one subscribe call assigns to this.id, in order
MockClient_assignments_setID(b) ==
  IF b.mode = "sync" THEN <<b.val>> ELSE << >>

\* the clients a test file constructs: create-client.test.js builds them with
\* createClient or new MockClient of mock-client.js, client.test.js with
\* new MockClient of part_002
Worlds ==
  {[c \in Clients |-> IF c = "A" THEN a ELSE MockClient_myID] :
      a \in {createClient(i) : i \in Ids} \cup {MockClient_myID}}
  \cup {[c \in Clients |-> MockClient_members]}

Outstanding(c) == {p \in pending : p.client = c}

Init ==
  /\ channels = [i \in Insts |-> [n \in AllNames |-> NoRef]]
  /\ heap = << >>
  /\ created = [i \in Insts |-> [n \in AllNames |-> 0]]
  /\ clients \in Worlds
  /\ pending = {}
  /\ views = {}
  /\ held = NoHeld
  /\ resolved = [c \in Clients |-> Undef]

\* effects of running an authorizer that are the same in both drafts
Authorized(c, b) ==
  /\ b.mode = "async" => Cardinality(Outstanding(c)) < MaxPending
  /\ pending' = IF b.mode = "async"
                THEN pending \cup {[client |-> c, val |-> b.val]}
                ELSE pending
  /\ resolved' = IF b.mode = "sync" THEN [resolved EXCEPT ![c] = b.val]
                 ELSE resolved

\* mock-client.js:8-14  MockClient.subscribe(name)
subscribe_myID(c, n, b) ==
  LET r == MockInstance_channel(channels["default"], heap, n, c) IN
  /\ clients[c].cls = "myID"
  /\ b \in Behaviours(clients[c])
  /\ Len(r.heap) <= MaxObjs
  /\ r.ret \in views \/ Cardinality(views) < MaxViews
  /\ Authorized(c, b)
  /\ clients' = [clients EXCEPT ![c] = MockClient_authorize(clients[c], b)]
  /\ channels' = [channels EXCEPT !["default"] = r.channels]
  /\ heap' = r.heap
  /\ created' = [created EXCEPT !["default"][n] = @ + r.made]
  /\ views' = views \cup {r.ret}
  /\ UNCHANGED held

\* part_002:15-22  MockClient.subscribe(name)
subscribe_members(c, n, b) ==
  LET r == MockPusherInstance_channel(channels["MockPusherInstance"], heap, n) IN
  /\ clients[c].cls = "members"
  /\ b \in Behaviours(clients[c])
  /\ Len(r.heap) <= MaxObjs
  /\ Cardinality(views \cup {[name |-> n, chan |-> r.ret, client |-> c, trap |-> "members"]}) <= MaxViews
  /\ Authorized(c, b)
  /\ clients' = [clients EXCEPT ![c] = MockClient_authorize_setID(clients[c], b)]
  /\ channels' = [channels EXCEPT !["MockPusherInstance"] = r.channels]
  /\ heap' = r.heap
  /\ created' = [created EXCEPT !["MockPusherInstance"][n] = @ + r.made]
  /\ views' = views \cup {[name |-> n, chan |-> r.ret, client |-> c, trap |-> "members"]}
  /\ UNCHANGED held

\* a completion whose `this` is shared by all clients: every client is written
complete_sharedThis(p) ==
  /\ p \in pending
  /\ pending' = pending \ {p}
  /\ clients' = [c \in Clients |-> [clients[c] EXCEPT !.id = p.val]]
  /\ resolved' = [resolved EXCEPT ![p.client] = p.val]
  /\ UNCHANGED <<channels, heap, created, views, held>>

\* a stored completion callback is finally invoked by the authorizer
complete(p) ==
  /\ p \in pending
  /\ pending' = pending \ {p}
  /\ clients' = [clients EXCEPT ![p.client] =
                   IF @.cls = "myID" THEN callback(@, [id |-> p.val])
                   ELSE setID(@, p.val)]
  /\ resolved' = [resolved EXCEPT ![p.client] = p.val]
  /\ UNCHANGED <<channels, heap, created, views, held>>

\* a caller reads view.members and keeps the result
readMembers(w) ==
  LET v == Get(heap, clients, w, "members") IN
  /\ w \in views
  /\ held' = IF IsObj(v) THEN [ref |-> v.ref, map |-> v.map, src |-> w.trap] ELSE NoHeld
  /\ heap' = GetEffect(heap, clients, w, "members")
  /\ UNCHANGED <<channels, created, clients, pending, views, resolved>>

\* a caller reads MockPusherInstance.channel(name).members and keeps the result
channel_members(n) ==
  LET r == MockPusherInstance_channel(channels["MockPusherInstance"], heap, n)
      v == TargetGet(r.heap, r.ret, "members") IN
  /\ \E c \in Clients : clients[c].cls = "members"
  /\ Len(r.heap) <= MaxObjs
  /\ channels' = [channels EXCEPT !["MockPusherInstance"] = r.channels]
  /\ heap' = r.heap
  /\ created' = [created EXCEPT !["MockPusherInstance"][n] = @ + r.made]
  /\ held' = IF IsObj(v) THEN [ref |-> v.ref, map |-> v.map, src |-> "raw"] ELSE NoHeld
  /\ UNCHANGED <<clients, pending, views, resolved>>

\* the mapping a caller holds is an object: writing it writes that object
WriteHeld(m) ==
  /\ held # NoHeld
  /\ m # held.map
  /\ held' = [held EXCEPT !.map = m]
  /\ heap' = IF held.ref = Fresh THEN heap
             ELSE [heap EXCEPT ![held.ref].members = m]
  /\ UNCHANGED <<channels, created, clients, pending, views, resolved>>

\* held[k] = v
mutateHeld(k, v) == held # NoHeld /\ WriteHeld(Put(held.map, k, v))

\* delete held[k]
deleteHeld(k) == held # NoHeld /\ WriteHeld(Del(held.map, k))

Next ==
  \/ \E c \in Clients, n \in Names : \E b \in Behaviours(clients[c]) : subscribe_myID(c, n, b)
  \/ \E c \in Clients, n \in Names : \E b \in Behaviours(clients[c]) : subscribe_members(c, n, b)
  \/ \E p \in pending : complete(p)
  \/ \E w \in views : readMembers(w)
  \/ \E n \in Names : channel_members(n)
  \/ \E k \in MemberKeys, v \in MemberVals : mutateHeld(k, v)
  \/ \E k \in MemberKeys : deleteHeld(k)

Spec == Init /\ [][Next]_vars

\* the same operations with every string a caller may pass as a channel name,
\* the names found on Object.prototype included
NextAllNames ==
  \/ \E c \in Clients, n \in AllNames : \E b \in Behaviours(clients[c]) : subscribe_myID(c, n, b)
  \/ \E c \in Clients, n \in AllNames : \E b \in Behaviours(clients[c]) : subscribe_members(c, n, b)
  \/ \E p \in pending : complete(p)
  \/ \E w \in views : readMembers(w)
  \/ \E n \in AllNames : channel_members(n)
  \/ \E k \in MemberKeys, v \in MemberVals : mutateHeld(k, v)
  \/ \E k \in MemberKeys : deleteHeld(k)

SpecAllNames == Init /\ [][NextAllNames]_vars

TypeOK ==
  /\ Len(heap) <= MaxObjs
  /\ \A c \in Clients : clients[c].id \in Ids \cup RetVals

\* ---------------------------------------------------------------- reads
MapGet(m, k) == IF k \in DOMAIN m THEN m[k] ELSE Undef

\* v.k for the result v of a property read; reading a property of undefined throws
Nested(v, k) == IF IsObj(v) THEN MapGet(v.map, k) ELSE "TypeError"

\* view.myID
BareSlot(hp, cl, w) == Get(hp, cl, w, "myID").prim

\* view.members.myID
NestedSlot(hp, cl, w) == Nested(Get(hp, cl, w, "members"), "myID")

\* the self-identity slot of the draft the view belongs to
SelfSlot(hp, cl, w) ==
  IF w.trap = "myID" THEN BareSlot(hp, cl, w) ELSE NestedSlot(hp, cl, w)

\* the registry a draft's subscribe uses
InstOf(trap) == IF trap = "myID" THEN "default" ELSE "MockPusherInstance"

\* a caller writes the mapping it holds
WriteStep ==
  \/ \E k \in MemberKeys, v \in MemberVals : mutateHeld(k, v)
  \/ \E k \in MemberKeys : deleteHeld(k)

\* ------------------------------------------------------------- claims
SameMembersButSelf(ma, mb) ==
  /\ (DOMAIN ma) \ {"myID"} = (DOMAIN mb) \ {"myID"}
  /\ \A k \in (DOMAIN ma) \ {"myID"} : ma[k] = mb[k]

\* two views of the members draft over one channel name whose clients have
\* resolved to distinct identities
IsolationCase(va, vb) ==
  /\ va.trap = "members" /\ vb.trap = "members"
  /\ va.client # vb.client
  /\ va.name = vb.name
  /\ resolved[va.client] \in Ids /\ resolved[vb.client] \in Ids
  /\ resolved[va.client] # resolved[vb.client]

\* C1: two clients resolved to distinct identities and subscribed to the same
\* channel name each read their own identity in members.myID, and their
\* members mappings agree on every key other than myID.
C1_IdentityIsolation ==
  \A va, vb \in views :
    IsolationCase(va, vb) =>
      LET ma == Get(heap, clients, va, "members")
          mb == Get(heap, clients, vb, "members") IN
      /\ Nested(ma, "myID") = resolved[va.client]
      /\ Nested(mb, "myID") = resolved[vb.client]
      /\ SameMembersButSelf(ma.map, mb.map)

C1_Witness ==
  \E va, vb \in views :
    /\ IsolationCase(va, vb)
    /\ va.chan # Builtin
    /\ "u1" \in DOMAIN heap[va.chan].members

\* C2: a client built by createClient(id) that subscribes gets a view whose
\* bare myID reads id.
C2_CreateClientMyID ==
  \A w \in views :
    clients[w.client].config.by = "createClient" =>
      BareSlot(heap, clients, w) = clients[w.client].config.id

\* C3: when the authorizer completes synchronously with v during subscribe,
\* the returned view reads members.myID = v right after subscribe returns.
C3_SyncResolve ==
  [][\A c \in Clients, n \in Names, v \in Ids :
       (/\ clients[c].cls = "members"
        /\ held' = held
        /\ subscribe_members(c, n, [mode |-> "sync", val |-> v, ret |-> Undef])) =>
         \A w \in views' :
           (w.client = c /\ w.name = n) =>
             NestedSlot(heap', clients', w) = v]_vars

C3_Witness ==
  \E w \in views :
    /\ w.trap = "members"
    /\ Outstanding(w.client) = {}
    /\ resolved[w.client] \in Ids
    /\ NestedSlot(heap, clients, w) = resolved[w.client]

\* the self-identity slot reads absent while the first completion is outstanding
AbsentBeforeCompletion ==
  \A w \in views :
    (Outstanding(w.client) # {} /\ resolved[w.client] = Undef) =>
      SelfSlot(heap, clients, w) = Undef

\* the self-identity slot reads the resolved identity once the callback ran
ResolvedAfterCompletion ==
  \A p \in pending :
    (resolved'[p.client] = p.val /\ complete(p)) =>
      \A w \in views : w.client = p.client => SelfSlot(heap', clients', w) = p.val

\* C4: for a client whose authorization completes after subscribe returned,
\* the self-identity slot of the returned view reads absent in every state
\* before the completion callback runs and the resolved identity after it ran.
C4_LiveRead == [](AbsentBeforeCompletion) /\ [][ResolvedAfterCompletion]_vars

\* C5: equal names always give the identical Channel object: at most one
\* Channel is ever created per name in a registry, and every view over a
\* name wraps the object the registry holds for it.
C5_RegistryIdempotence ==
  /\ \A i \in Insts, n \in AllNames : created[i][n] <= 1
  /\ \A w \in views : w.chan = Lookup(channels[InstOf(w.trap)], w.name)

C5_Witness ==
  \E va, vb \in views :
    /\ va.client # vb.client
    /\ va.name = vb.name
    /\ va.chan = vb.chan
    /\ va.chan # Builtin
    /\ created[InstOf(va.trap)][va.name] = 1

\* C6: different channel names give different objects, in every registry state.
C6_RegistryDistinctness ==
  /\ \A i \in Insts : \A n1, n2 \in AllNames :
       (n1 # n2 /\ Lookup(channels[i], n1) # NoRef /\ Lookup(channels[i], n2) # NoRef)
         => Lookup(channels[i], n1) # Lookup(channels[i], n2)
  /\ \A va, vb \in views :
       (va.trap = vb.trap /\ va.name # vb.name) => va.chan # vb.chan

C6_Witness ==
  \E va, vb \in views :
    /\ va.trap = vb.trap
    /\ va.name # vb.name
    /\ va.chan # Builtin /\ vb.chan # Builtin
    /\ heap[va.chan].name = va.name /\ heap[vb.chan].name = vb.name

\* C7: on every view both view.myID and view.members.myID read client.id.
C7_BothSlots ==
  \A w \in views :
    /\ BareSlot(heap, clients, w) = clients[w.client].id
    /\ NestedSlot(heap, clients, w) = clients[w.client].id

\* C7 as amended: on every view the slot its proxy traps reads client.id at
\* the time of the read: view.myID on views of the myID proxy,
\* view.members.myID on views of the members proxy.
C7_TrappedSlot ==
  \A w \in views :
    /\ w.trap = "myID" => BareSlot(heap, clients, w) = clients[w.client].id
    /\ w.trap = "members" => NestedSlot(heap, clients, w) = clients[w.client].id

C7_Witness ==
  \E w \in views :
    /\ w.trap = "myID"
    /\ clients[w.client].id \in Ids
    /\ BareSlot(heap, clients, w) = clients[w.client].id
    /\ NestedSlot(heap, clients, w) # clients[w.client].id

\* C8: a read through a view of any key other than members / myID returns
\* exactly what the same read on the underlying object returns.
C8_Passthrough ==
  \A w \in views : \A key \in Keys \ {"members", "myID"} :
    /\ Get(heap, clients, w, key) = TargetGet(heap, w.chan, key)
    /\ w.chan # Builtin =>
         Get(heap, clients, w, key) =
           (IF key = "name" THEN Prim(w.name) ELSE Prim(Undef))

C8_Witness ==
  \E w \in views :
    /\ w.chan # Builtin
    /\ Get(heap, clients, w, "name") = Prim(w.name)
    /\ Get(heap, clients, w, "callbacks") = Prim(Undef)

\* a write to a held mapping leaves every channel and every view's members alone
NoLeak ==
  /\ heap' = heap
  /\ \A w \in views :
       Get(heap', clients', w, "members") = Get(heap, clients, w, "members")

\* C9: after a caller obtains view.members from any view and writes the
\* returned mapping, the channel's members and the members read through the
\* views are unchanged.
C9_NoMutationLeak ==
  [][(held # NoHeld /\ held.src \in {"myID", "members"} /\ WriteStep) => NoLeak]_vars

\* C9 as amended: the same for a mapping obtained from a view of the members
\* proxy, which returns a new object on every read.
C9_NoLeakMembersProxy ==
  [][(held # NoHeld /\ held.src = "members" /\ WriteStep) => NoLeak]_vars

C9_Witness ==
  /\ held # NoHeld
  /\ held.src = "members"
  /\ "u1" \in DOMAIN held.map
  /\ \E w \in views :
       /\ w.chan # Builtin
       /\ "u1" \notin DOMAIN heap[w.chan].members

\* C10: at every read the self-identity slot of every view of a client equals
\* the identity passed to the client's most recent completion callback; once
\* an identity is resolved the slot never reads absent or an older value.
C10_MostRecentIdentity ==
  \A w \in views :
    resolved[w.client] # Undef => SelfSlot(heap, clients, w) = resolved[w.client]

\* the assignments to this.id made by one subscribe call of client c
Assignments(c, b) ==
  IF clients[c].cls = "myID" THEN MockClient_assignments(b)
  ELSE MockClient_assignments_setID(b)

\* C11: during one subscribe call whose authorization completes, the
\* client's identity field is assigned exactly once, with the resolved
\* identity, and with no other value.
C11_AssignedOnce ==
  [][\A c \in Clients, n \in Names : \A b \in Behaviours(clients[c]) :
       (/\ b.mode = "sync"
        /\ held' = held
        /\ resolved'[c] = b.val
        /\ subscribe_myID(c, n, b) \/ subscribe_members(c, n, b)) =>
         /\ Assignments(c, b) = <<b.val>>
         /\ clients'[c].id = b.val]_vars

\* C12: if a client's authorizer never invokes the completion callback,
\* subscribe still returns a view, and in every later state the client's
\* identity is absent and the self-identity slot of the view reads undefined.
C12_NeverResolvedStaysAbsent ==
  \A w \in views :
    (resolved[w.client] = Undef /\ Outstanding(w.client) = {}) =>
      /\ clients[w.client].id = Undef
      /\ SelfSlot(heap, clients, w) = Undef

\* C13: under every interleaving of the subscribes and completions of two
\* clients, a completion of one client's callback changes only that client's
\* identity: the other client, the registries and every channel's members
\* are left as they were.
C13_CompletionIsolated ==
  [][\A p \in pending :
       (pending' = pending \ {p} /\ complete(p)) =>
         /\ clients'[p.client] = [clients[p.client] EXCEPT !.id = p.val]
         /\ \A c \in Clients \ {p.client} : clients'[c] = clients[c]
         /\ channels' = channels
         /\ heap' = heap]_vars

C13_Witness ==
  \E va, vb \in views :
    /\ va.client # vb.client
    /\ va.trap = "myID"
    /\ clients[va.client].id \in Ids
    /\ resolved[va.client] = clients[va.client].id
    /\ clients[vb.client].id # clients[va.client].id

\* the entries of a members mapping other than the self slot
NonSelf(m) == [k \in (DOMAIN m) \ {"myID"} |-> m[k]]

\* view.members with the self slot left out
NonSelfMembers(hp, cl, w) == NonSelf(Spread(Get(hp, cl, w, "members")))

\* C14: a change made to a channel's shared members mapping after views were
\* created shows, on the next read of members, in the non-self entries of
\* every view over that channel, and in no view over another channel.
C14_SharedMembersLive ==
  [][(held # NoHeld /\ held.ref # Fresh /\ WriteStep) =>
       \A w \in views :
         IF w.chan = held.ref
         THEN /\ NonSelfMembers(heap', clients', w) = NonSelf(heap'[held.ref].members)
              /\ NonSelfMembers(heap', clients', w) # NonSelfMembers(heap, clients, w)
         ELSE Get(heap', clients', w, "members") = Get(heap, clients, w, "members")]_vars

C14_Witness ==
  /\ held # NoHeld
  /\ held.ref # Fresh
  /\ "u1" \in DOMAIN heap[held.ref].members
  /\ \E va, vb \in views :
       /\ va.trap = "members"
       /\ va.chan = held.ref
       /\ "u1" \in DOMAIN Get(heap, clients, va, "members").map
       /\ vb.chan # held.ref
       /\ "u1" \notin DOMAIN Get(heap, clients, vb, "members").map

\* a call channel(n) or subscribe(n)
CallOn(n) ==
  \/ channel_members(n)
  \/ \E c \in Clients : \E b \in Behaviours(clients[c]) :
       subscribe_myID(c, n, b) \/ subscribe_members(c, n, b)

\* C15: a call channel(n) or subscribe(n) changes a registry only by adding
\* an entry for n when none exists: the entries of all other names are
\* unchanged, and a name that maps to a Channel maps to that same Channel in
\* every later state.
C15_RegistryMonotone ==
  [][/\ \A i \in Insts, n \in AllNames :
          channels[i][n] # NoRef => channels'[i][n] = channels[i][n]
     /\ \A n \in Names :
          (channels' # channels /\ CallOn(n)) =>
            \A i \in Insts, m \in AllNames \ {n} : channels'[i][m] = channels[i][m]]_vars

C15_Witness ==
  \E i \in Insts :
    /\ channels[i]["room-1"] # NoRef
    /\ channels[i]["room-2"] # NoRef
    /\ channels[i]["room-1"] # channels[i]["room-2"]
    /\ \E w \in views : w.chan = channels[i]["room-1"]

\* what channel(n) returned to a subscribe is named n
NamedAsAsked ==
  \A w \in views : TargetGet(heap, w.chan, "name") = Prim(w.name)

\* a first lookup of n creates a channel named n with empty members, and no
\* channel is ever renamed
CreatedEmptyAndNeverRenamed ==
  /\ \A i \in Insts, n \in AllNames :
       created'[i][n] > created[i][n] =>
         /\ channels'[i][n] = Len(heap')
         /\ heap'[Len(heap')] = [name |-> n, members |-> EmptyMap]
  /\ \A r \in 1..Len(heap) : heap'[r].name = heap[r].name

\* C16: for every channel name n, the Channel returned by channel(n) has name
\* n, its members mapping is empty when this is the first lookup of n, and
\* its name never changes afterwards.
C16_ChannelNamedAndEmpty == [](NamedAsAsked) /\ [][CreatedEmptyAndNeverRenamed]_vars

\* no read of any key through any view writes a channel
ReadLeavesHeap ==
  \A w \in views : \A key \in Keys : GetEffect(heap, clients, w, key) = heap

\* C17: property reads through any view (members, myID or any other key), by
\* any client and in any identity state, leave the underlying Channel's name
\* and members unchanged: the identity merge never writes channel.members.
C17_ReadsDoNotWrite ==
  /\ [](ReadLeavesHeap)
  /\ [][(\E w \in views : readMembers(w)) => (heap' = heap /\ channels' = channels)]_vars

C17_Witness ==
  /\ held # NoHeld
  /\ held.src = "members"
  /\ held.ref = Fresh
  /\ MapGet(held.map, "myID") \in Ids
  /\ Len(heap) >= 1
  /\ \A r \in 1..Len(heap) : "myID" \notin DOMAIN heap[r].members

====
